---- MODULE Spec2Model ----
(***************************************************************************)
(* Model of backend/kernel_tools/content_tools.py (class ContentTools):    *)
(*   parse_sections           the line-classifying section segmenter       *)
(*   extract_text_from_pdf    the PDF text extractor                       *)
(*   get_all_kernel_functions / generate_tools_json_doc                    *)
(*                            the reflective tool registry                 *)
(* Strings are sequences of one-character strings, so that len, strip,     *)
(* split, startswith, endswith, isupper and prefix tests are computed      *)
(* character by character as Python computes them.                         *)
(***************************************************************************)
EXTENDS Integers, Sequences, FiniteSets, TLC

VARIABLES
    \* ---- parse_sections(text, min_section_length) -----------------------
    pc_parse,            \* position of the call: "call", "loop", "done"
    text,                \* argument text
    min_section_length,  \* argument min_section_length
    lines,               \* local lines = text.split('\n')
    line_no,             \* number of lines the for loop has consumed
    line,                \* loop variable after line.strip()
    is_heading,          \* local is_heading of the last non-empty line
    sections,            \* local sections (the output list)
    current_section,     \* local current_section
    parse_result,        \* value returned by the call
    memo,                \* history: one earlier completed call, or NoCall
    \* ---- extract_text_from_pdf(file_path) -------------------------------
    pc_pdf,              \* "call", "open", "len", "page", "except", "done", "raised"
    file_path,           \* argument file_path
    fs_entry,            \* environment: what the file system holds at file_path
    doc,                 \* the document handle: "none", "open", "closed"
    page_count,          \* len(doc) as evaluated for range()
    page_num,            \* number of pages the for loop has consumed
    pdf_text,            \* local text
    exc,                 \* the exception raised inside the try block, or NoExc
    pdf_result,          \* value returned by the call
    pdf_outcome,         \* history: which return statement ran
    \* ---- get_all_kernel_functions() / generate_tools_json_doc() ---------
    runtime,             \* environment: how get_type_hints reports "str = None"
    pc_list,             \* get_all_kernel_functions: "call", "loop", "done"
    list_pos,            \* members its for loop has consumed
    kernel_functions,    \* local kernel_functions: the names it maps
    pc_doc,              \* generate_tools_json_doc: "call", "loop", "done"
    doc_pos,             \* members its for loop has consumed
    tools_list,          \* local tools_list
    \* ---- summarize_text(text, max_length) -------------------------------
    pc_sum,              \* position of the call: "call", "done"
    sum_text,            \* argument text
    max_length,          \* argument max_length
    sum_result           \* value returned by the call

parseVars == <<pc_parse, text, min_section_length, lines, line_no, line,
               is_heading, sections, current_section, parse_result, memo>>

pdfVars == <<pc_pdf, file_path, fs_entry, doc, page_count, page_num, pdf_text,
             exc, pdf_result, pdf_outcome>>

toolVars == <<runtime, pc_list, list_pos, kernel_functions, pc_doc, doc_pos,
              tools_list>>

sumVars == <<pc_sum, sum_text, max_length, sum_result>>

vars == <<parseVars, pdfVars, toolVars, sumVars>>

-----------------------------------------------------------------------------
(* Characters and strings *)

NL == "\n"
Whitespace == {" ", "\t", "\r", NL}
UpperSeq ==
    <<"A", "B", "C", "D", "E", "F", "G", "H", "I", "J", "K", "L", "M", "N",
      "O", "P", "Q", "R", "S", "T", "U", "V", "W", "X", "Y", "Z">>
LowerSeq ==
    <<"a", "b", "c", "d", "e", "f", "g", "h", "i", "j", "k", "l", "m", "n",
      "o", "p", "q", "r", "s", "t", "u", "v", "w", "x", "y", "z">>
UpperChars == {UpperSeq[k] : k \in 1..Len(UpperSeq)}
LowerChars == {LowerSeq[k] : k \in 1..Len(LowerSeq)}

Rep(c, n) == [k \in 1..n |-> c]

SetMin(S) == CHOOSE m \in S : \A k \in S : m <= k
SetMax(S) == CHOOSE m \in S : \A k \in S : k <= m

\* str.split('\n'): always at least one piece, pieces hold no newline
RECURSIVE Split(_)
Split(s) ==
    LET nl == {k \in 1..Len(s) : s[k] = NL}
    IN  IF nl = {} THEN <<s>>
        ELSE LET k == SetMin(nl)
             IN  <<SubSeq(s, 1, k - 1)>> \o Split(SubSeq(s, k + 1, Len(s)))

\* str.strip(): drop leading and trailing whitespace
Strip(s) ==
    LET keep == {k \in 1..Len(s) : s[k] \notin Whitespace}
    IN  IF keep = {} THEN <<>> ELSE SubSeq(s, SetMin(keep), SetMax(keep))

\* str.lower() and str.upper(), character by character
LowerChar(c) ==
    IF c \in UpperChars THEN LowerSeq[CHOOSE k \in 1..Len(UpperSeq) : UpperSeq[k] = c]
    ELSE c
UpperChar(c) ==
    IF c \in LowerChars THEN UpperSeq[CHOOSE k \in 1..Len(LowerSeq) : LowerSeq[k] = c]
    ELSE c
Lower(s) == [k \in 1..Len(s) |-> LowerChar(s[k])]

\* sub in s
Contains(s, sub) ==
    \E k \in 0..(Len(s) - Len(sub)) : SubSeq(s, k + 1, k + Len(sub)) = sub

EndsWith(s, c) == Len(s) > 0 /\ s[Len(s)] = c

StartsWith(s, p) == Len(p) <= Len(s) /\ SubSeq(s, 1, Len(p)) = p

\* str.isupper() with the cased-character requirement dropped
IsUpperVacuous(s) == \A k \in 1..Len(s) : s[k] \notin LowerChars

\* str.isupper(): at least one cased character, and no lower-case one
IsUpper(s) ==
    /\ \E k \in 1..Len(s) : s[k] \in UpperChars
    /\ \A k \in 1..Len(s) : s[k] \notin LowerChars

-----------------------------------------------------------------------------
(* parse_sections: the heading heuristic *)

CapsLimit == 100
ColonLimit == 80
ShortLimit == 60
DefaultMinSectionLength == 100

Introduction == <<"I", "n", "t", "r", "o", "d", "u", "c", "t", "i", "o", "n">>
Chapter == <<"C", "h", "a", "p", "t", "e", "r">>
Section == <<"S", "e", "c", "t", "i", "o", "n">>
HeadingPrefixes == {<<"#">>, Chapter, Section}

RuleCaps(l) == Len(l) < CapsLimit /\ IsUpper(l)
RuleColon(l) == Len(l) < ColonLimit /\ EndsWith(l, ":")
RulePrefix(l) == \E p \in HeadingPrefixes : StartsWith(l, p)
RuleShort(l) == Len(l) < ShortLimit /\ ~EndsWith(l, ".") /\ ~EndsWith(l, ",")

IsHeading(l) == RuleCaps(l) \/ RuleColon(l) \/ RulePrefix(l) \/ RuleShort(l)

\* the comparison with the minimum is strict
HasEnoughContentStrict(sec, m) == Len(sec.content) > m

\* a section is kept whenever it has any content at all
HasEnoughContentNonEmpty(sec, m) == Len(sec.content) > 0

\* len(current_section["content"]) >= min_section_length
HasEnoughContent(sec, m) == Len(sec.content) >= m

\* the new section keeps the content gathered so far
NewSectionCarry(l) == [title |-> l, content |-> current_section.content]

\* current_section = {"title": line, "content": ""}
NewSection(l) == [title |-> l, content |-> <<>>]

\* the line is terminated by a carriage return and a newline
AddLineCRLF(sec, l) == [sec EXCEPT !.content = @ \o l \o <<"\r", NL>>]

\* current_section["content"] += line + "\n"
AddLine(sec, l) == [sec EXCEPT !.content = @ \o l \o <<NL>>]

\* the output list is not created afresh
FreshSectionsLeaky == sections

\* sections = []
FreshSections == <<>>

\* json.dumps(sections, ensure_ascii=False): the JSON document, kept as its structure
JsonDumps(v) == [json |-> v]

-----------------------------------------------------------------------------
(* Inputs of parse_sections *)

MaxLines == 4
MaxMixedLines == 2
MaxPureLines == 2

LBody == <<"a", "b", ".">>
LCaps == <<"A", "B">>
LNum == <<" ", "1", ".", " ">>
LBlank == <<>>

LIntro == Introduction

ShortPool == {LBody, LCaps, LNum, LBlank, LIntro}

MixedPool ==
    ShortPool \cup
    { <<" ", "\t">>,
      Rep("1", ShortLimit),
      Rep("A", ShortLimit),
      Rep("A", CapsLimit),
      Rep("a", ShortLimit - 1),
      Rep("a", ShortLimit),
      Rep("a", ColonLimit - 2) \o <<":">>,
      Rep("a", ColonLimit - 1) \o <<":">>,
      Rep("1", ShortLimit) \o <<":">>,
      <<"#">> \o Rep("1", ShortLimit),
      Section \o <<" ", "1", ".">>,
      <<"s", "e", "c", "t", "i", "o", "n", " ", "1", ".">>,
      Chapter \o Rep("a", ShortLimit) \o <<",">> }

PurePool == {LBody, LCaps}

RECURSIVE Join(_)
Join(ls) ==
    IF Len(ls) = 0 THEN <<>>
    ELSE IF Len(ls) = 1 THEN ls[1]
    ELSE ls[1] \o <<NL>> \o Join(Tail(ls))

TextsOf(pool, n) == { Join(ls) : ls \in UNION { [1..k -> pool] : k \in 0..n } }

Texts == TextsOf(ShortPool, MaxLines) \cup TextsOf(MixedPool, MaxMixedLines)
PureTexts == TextsOf(PurePool, MaxPureLines)

MinPool == {0, 4, 5, DefaultMinSectionLength}

\* the worked example: two headings, each followed by one long body line
ScenarioH1 ==
    <<"I", "N", "T", "R", "O">>
ScenarioB1 ==
    <<"H", "e", "l", "l", "o", " ", "w", "o", "r", "l", "d", ",", " ", "t",
      "h", "i", "s", " ", "i", "s", " ", "a", " ", "b", "o", "d", "y", " ",
      "l", "i", "n", "e", " ", "t", "h", "a", "t", " ", "i", "s", " ", "l",
      "o", "n", "g", " ", "e", "n", "o", "u", "g", "h", " ", "t", "o", " ",
      "c", "o", "u", "n", "t", " ", "t", "o", "w", "a", "r", "d", "s", " ",
      "t", "h", "e", " ", "m", "i", "n", "i", "m", "u", "m", " ", "l", "e",
      "n", "g", "t", "h", " ", "t", "h", "r", "e", "s", "h", "o", "l", "d",
      " ", "f", "o", "r", " ", "s", "u", "r", "e", ".">>
ScenarioH2 ==
    <<"S", "E", "C", "T", "I", "O", "N", " ", "T", "W", "O", ":">>
ScenarioB2 ==
    <<"A", "n", "o", "t", "h", "e", "r", " ", "s", "u", "f", "f", "i", "c",
      "i", "e", "n", "t", "l", "y", " ", "l", "o", "n", "g", " ", "b", "o",
      "d", "y", " ", "l", "i", "n", "e", " ", "t", "o", " ", "p", "a", "s",
      "s", " ", "t", "h", "e", " ", "s", "a", "m", "e", " ", "m", "i", "n",
      "i", "m", "u", "m", " ", "l", "e", "n", "g", "t", "h", " ", "t", "h",
      "r", "e", "s", "h", "o", "l", "d", " ", "c", "h", "e", "c", "k", " ",
      "h", "e", "r", "e", " ", "t", "o", "o", ".">>
ScenarioText == Join(<<ScenarioH1, ScenarioB1, ScenarioH2, ScenarioB2>>)
ScenarioMinPool == {50}
PureMinPool == {0, 4}

NoCall == [called |-> FALSE]
NoResult == [returned |-> FALSE]

-----------------------------------------------------------------------------
(* parse_sections: the call, one step per loop iteration *)

ParseInit(ts, ms) ==
    /\ pc_parse = "call"
    /\ text \in ts
    /\ min_section_length \in ms
    /\ lines = <<>>
    /\ line_no = 0
    /\ line = <<>>
    /\ is_heading = FALSE
    /\ sections = <<>>
    /\ current_section = [title |-> <<>>, content |-> <<>>]
    /\ parse_result = NoResult
    /\ memo = NoCall

\* lines 68-70
Enter ==
    /\ pc_parse = "call"
    /\ lines' = Split(text)
    /\ sections' = FreshSections
    /\ current_section' = NewSection(Introduction)
    /\ line_no' = 0
    /\ pc_parse' = "loop"
    /\ UNCHANGED <<text, min_section_length, line, is_heading, parse_result, memo>>

\* lines 73-97: one iteration of the for loop
Iterate ==
    /\ pc_parse = "loop"
    /\ line_no < Len(lines)
    /\ line_no' = line_no + 1
    /\ line' = Strip(lines[line_no + 1])
    /\ IF line' = <<>>
       THEN UNCHANGED <<is_heading, sections, current_section>>
       ELSE /\ is_heading' = IsHeading(line')
            /\ IF is_heading'
               THEN /\ sections' = IF HasEnoughContent(current_section, min_section_length)
                                   THEN Append(sections, current_section)
                                   ELSE sections
                    /\ current_section' = NewSection(line')
               ELSE /\ current_section' = AddLine(current_section, line')
                    /\ UNCHANGED sections
    /\ UNCHANGED <<pc_parse, text, min_section_length, lines, parse_result, memo>>

\* lines 99-103: the loop is exhausted
Finish ==
    /\ pc_parse = "loop"
    /\ line_no = Len(lines)
    /\ sections' = IF HasEnoughContent(current_section, min_section_length)
                   THEN Append(sections, current_section)
                   ELSE sections
    /\ parse_result' = JsonDumps(sections')
    /\ pc_parse' = "done"
    /\ UNCHANGED <<text, min_section_length, lines, line_no, line, is_heading,
                   current_section, memo>>

\* a later call of the same function; the frame of the finished call is not
\* cleared here, Enter assigns the locals of the new call
CallAgain ==
    /\ pc_parse = "done"
    /\ text' \in PureTexts
    /\ min_section_length' \in PureMinPool
    /\ pc_parse' = "call"
    /\ memo' \in {memo, [called |-> TRUE, text |-> text,
                         min_section_length |-> min_section_length,
                         result |-> parse_result]}
    /\ UNCHANGED <<lines, line_no, line, is_heading, sections, current_section,
                   parse_result>>

-----------------------------------------------------------------------------
(* extract_text_from_pdf *)

NotFoundMessage ==
    <<"E", "r", "r", "o", "r", ":", " ", "F", "i", "l", "e", " ", "n", "o",
      "t", " ", "f", "o", "u", "n", "d", " ", "a", "t", " ">>
ExtractErrorMessage ==
    <<"E", "r", "r", "o", "r", " ", "e", "x", "t", "r", "a", "c", "t", "i",
      "n", "g", " ", "t", "e", "x", "t", " ", "f", "r", "o", "m", " ", "P",
      "D", "F", ":", " ">>
\* what the two failure messages have in common
ErrorPrefix == <<"E", "r", "r", "o", "r">>

MaxPages == 2

\* arguments: two path strings and one argument that is no path (None)
PathA == [is_path |-> TRUE, chars |-> <<"a">>]
PathB == [is_path |-> TRUE, chars |-> <<"b", ".", "p", "d", "f">>]
NoneArg == [is_path |-> FALSE, chars |-> <<"N", "o", "n", "e">>]
FilePaths == {PathA, PathB, NoneArg}

\* page.get_text() of a page: any text, also one that reads like a failure
PageTexts ==
    { <<>>,
      <<"H", "i", NL>>,
      NotFoundMessage \o PathA.chars }

Missing == [exists |-> FALSE]
Documents ==
    { [exists |-> TRUE, pages |-> ps] :
        ps \in UNION { [1..n -> PageTexts] : n \in 0..MaxPages } }
FsEntries == {Missing} \cup Documents

\* exceptions: a class and str(e)
NoExc == [class |-> "none", msg |-> <<>>]
ExceptionClasses == {"TypeError", "RuntimeError", "ValueError"}
LibraryErrors ==
    { [class |-> c, msg |-> <<"b", "a", "d">>] : c \in {"RuntimeError", "ValueError"} }
PathTypeError == [class |-> "TypeError", msg |-> <<"s", "t", "a", "t">>]

\* except RuntimeError: a handler narrower than the exceptions raised
CatchesRuntimeErrorOnly(e) == e.class = "RuntimeError"

\* except Exception (line 47): every exception class raised here derives from it
Catches(e) == e.class \in ExceptionClasses

\* f"{file_path}"
Format(arg) == arg.chars

PdfInit ==
    /\ pc_pdf = "call"
    /\ file_path \in FilePaths
    /\ fs_entry \in FsEntries
    /\ doc = "none"
    /\ page_count = 0
    /\ page_num = 0
    /\ pdf_text = <<>>
    /\ exc = NoExc
    /\ pdf_result = NoResult
    /\ pdf_outcome = "none"

\* an exception raised inside the try block: to the handler of line 47 if it
\* catches it, else out of the call
Raise(e) ==
    /\ exc' = e
    /\ pc_pdf' = IF Catches(e) THEN "except" ELSE "raised"

\* lines 33-34: os.path.exists(file_path)
PdfCheckExists ==
    /\ pc_pdf = "call"
    /\ IF ~file_path.is_path
       THEN /\ Raise(PathTypeError)
            /\ UNCHANGED <<pdf_result, pdf_outcome>>
       ELSE IF ~fs_entry.exists
       THEN /\ pdf_result' = NotFoundMessage \o Format(file_path)
            /\ pdf_outcome' = "not_found"
            /\ pc_pdf' = "done"
            /\ UNCHANGED exc
       ELSE /\ pc_pdf' = "open"
            /\ UNCHANGED <<exc, pdf_result, pdf_outcome>>
    /\ UNCHANGED <<file_path, fs_entry, doc, page_count, page_num, pdf_text>>

\* lines 37-38: doc = fitz.open(file_path); text = ""
PdfOpen ==
    /\ pc_pdf = "open"
    /\ doc' = "open"
    /\ pdf_text' = <<>>
    /\ pc_pdf' = "len"
    /\ UNCHANGED <<file_path, fs_entry, page_count, page_num, exc, pdf_result,
                   pdf_outcome>>

\* line 37: fitz.open raises (unreadable, not a document, removed meanwhile)
PdfOpenRaises ==
    /\ pc_pdf = "open"
    /\ \E e \in LibraryErrors : Raise(e)
    /\ UNCHANGED <<file_path, fs_entry, doc, page_count, page_num, pdf_text,
                   pdf_result, pdf_outcome>>

\* line 41: range(len(doc))
PdfLen ==
    /\ pc_pdf = "len"
    /\ page_count' = Len(fs_entry.pages)
    /\ page_num' = 0
    /\ pc_pdf' = "page"
    /\ UNCHANGED <<file_path, fs_entry, doc, pdf_text, exc, pdf_result, pdf_outcome>>

\* line 41: len(doc) raises
PdfLenRaises ==
    /\ pc_pdf = "len"
    /\ \E e \in LibraryErrors : Raise(e)
    /\ UNCHANGED <<file_path, fs_entry, doc, page_count, page_num, pdf_text,
                   pdf_result, pdf_outcome>>

\* lines 42-43: page = doc[page_num]; text += page.get_text()
PdfPage ==
    /\ pc_pdf = "page"
    /\ page_num < page_count
    /\ pdf_text' = pdf_text \o fs_entry.pages[page_num + 1]
    /\ page_num' = page_num + 1
    /\ UNCHANGED <<pc_pdf, file_path, fs_entry, doc, page_count, exc, pdf_result,
                   pdf_outcome>>

\* lines 42-43: loading the page or reading its text raises
PdfPageRaises ==
    /\ pc_pdf = "page"
    /\ page_num < page_count
    /\ \E e \in LibraryErrors : Raise(e)
    /\ UNCHANGED <<file_path, fs_entry, doc, page_count, page_num, pdf_text,
                   pdf_result, pdf_outcome>>

\* lines 45-46: doc.close(); return text
PdfClose ==
    /\ pc_pdf = "page"
    /\ page_num = page_count
    /\ doc' = "closed"
    /\ pdf_result' = pdf_text
    /\ pdf_outcome' = "text"
    /\ pc_pdf' = "done"
    /\ UNCHANGED <<file_path, fs_entry, page_count, page_num, pdf_text, exc>>

\* lines 47-49: the handler returns the error string
PdfExcept ==
    /\ pc_pdf = "except"
    /\ pdf_result' = ExtractErrorMessage \o exc.msg
    /\ pdf_outcome' = "error"
    /\ pc_pdf' = "done"
    /\ UNCHANGED <<file_path, fs_entry, doc, page_count, page_num, pdf_text, exc>>


-----------------------------------------------------------------------------
(* The class ContentTools as inspect sees it *)

N_agent_name ==
    <<"a", "g", "e", "n", "t", "_", "n", "a", "m", "e">>
N_extract_tables_from_pdf ==
    <<"e", "x", "t", "r", "a", "c", "t", "_", "t", "a", "b", "l", "e", "s",
      "_", "f", "r", "o", "m", "_", "p", "d", "f">>
N_extract_text_from_pdf ==
    <<"e", "x", "t", "r", "a", "c", "t", "_", "t", "e", "x", "t", "_", "f",
      "r", "o", "m", "_", "p", "d", "f">>
N_generate_tools_json_doc ==
    <<"g", "e", "n", "e", "r", "a", "t", "e", "_", "t", "o", "o", "l", "s",
      "_", "j", "s", "o", "n", "_", "d", "o", "c">>
N_get_all_kernel_functions ==
    <<"g", "e", "t", "_", "a", "l", "l", "_", "k", "e", "r", "n", "e", "l",
      "_", "f", "u", "n", "c", "t", "i", "o", "n", "s">>
N_get_documents_from_sharepoint ==
    <<"g", "e", "t", "_", "d", "o", "c", "u", "m", "e", "n", "t", "s", "_",
      "f", "r", "o", "m", "_", "s", "h", "a", "r", "e", "p", "o", "i", "n",
      "t">>
N_parse_sections ==
    <<"p", "a", "r", "s", "e", "_", "s", "e", "c", "t", "i", "o", "n", "s">>
N_summarize_text ==
    <<"s", "u", "m", "m", "a", "r", "i", "z", "e", "_", "t", "e", "x", "t">>
N_file_path ==
    <<"f", "i", "l", "e", "_", "p", "a", "t", "h">>
N_text ==
    <<"t", "e", "x", "t">>
N_min_section_length ==
    <<"m", "i", "n", "_", "s", "e", "c", "t", "i", "o", "n", "_", "l", "e",
      "n", "g", "t", "h">>
N_max_length ==
    <<"m", "a", "x", "_", "l", "e", "n", "g", "t", "h">>
N_site_url ==
    <<"s", "i", "t", "e", "_", "u", "r", "l">>
N_library_name ==
    <<"l", "i", "b", "r", "a", "r", "y", "_", "n", "a", "m", "e">>
N_username ==
    <<"u", "s", "e", "r", "n", "a", "m", "e">>
N_password ==
    <<"p", "a", "s", "s", "w", "o", "r", "d">>
N_dunder_doc ==
    <<"_", "_", "d", "o", "c", "_", "_">>
N_dunder_init ==
    <<"_", "_", "i", "n", "i", "t", "_", "_">>
N_cls ==
    <<"c", "l", "s">>
N_self ==
    <<"s", "e", "l", "f">>
T_string ==
    <<"s", "t", "r", "i", "n", "g">>
T_int ==
    <<"i", "n", "t">>
T_float ==
    <<"f", "l", "o", "a", "t">>
T_boolean ==
    <<"b", "o", "o", "l", "e", "a", "n">>
T_bool ==
    <<"b", "o", "o", "l">>
T_str ==
    <<"s", "t", "r">>
R_str ==
    <<"<", "c", "l", "a", "s", "s", " ", "'", "s", "t", "r", "'", ">">>
R_int ==
    <<"<", "c", "l", "a", "s", "s", " ", "'", "i", "n", "t", "'", ">">>
R_optional_str ==
    <<"t", "y", "p", "i", "n", "g", ".", "O", "p", "t", "i", "o", "n", "a",
      "l", "[", "s", "t", "r", "]">>
N_Optional ==
    <<"O", "p", "t", "i", "o", "n", "a", "l">>

\* type objects, as get_type_hints returns them: __name__ (if any) and str()
StrClass == [has_name |-> TRUE, name |-> T_str, repr |-> R_str]
IntClass == [has_name |-> TRUE, name |-> T_int, repr |-> R_int]
OptionalStrNamed == [has_name |-> TRUE, name |-> N_Optional, repr |-> R_optional_str]
OptionalStrUnnamed == [has_name |-> FALSE, name |-> <<>>, repr |-> R_optional_str]

\* a parameter "name: str = None" is reported as str, or as Optional[str]
\* with or without a __name__, depending on the Python version
Runtimes == {"plain", "optional_named", "optional_unnamed"}

Param(n, hint, noneDefault) == [name |-> n, declared |-> hint, none_default |-> noneDefault]

Function(n, descr, ps) ==
    [name |-> n, kind |-> "function", marker |-> TRUE, annotations_mention |-> FALSE,
     description |-> descr, params |-> ps]

Other(n, k) ==
    [name |-> n, kind |-> k, marker |-> FALSE, annotations_mention |-> FALSE,
     description |-> "", params |-> <<>>]

\* inspect.getmembers(cls): every attribute, sorted by name
Members ==
    << Other(N_dunder_doc, "data"),
       Other(N_dunder_init, "slot"),
       Other(N_agent_name, "data"),
       Function(N_extract_tables_from_pdf,
                "Extract tables from a PDF document as structured data",
                <<Param(N_file_path, StrClass, FALSE)>>),
       Function(N_extract_text_from_pdf,
                "Extract text content from a PDF document.",
                <<Param(N_file_path, StrClass, FALSE)>>),
       Other(N_generate_tools_json_doc, "method"),
       Other(N_get_all_kernel_functions, "method"),
       Function(N_get_documents_from_sharepoint,
                "Connect to SharePoint and retrieve documents from a specified library",
                <<Param(N_site_url, StrClass, FALSE),
                  Param(N_library_name, StrClass, FALSE),
                  Param(N_username, StrClass, TRUE),
                  Param(N_password, StrClass, TRUE)>>),
       Function(N_parse_sections,
                "Parse a document into logical sections based on headings and structure.",
                <<Param(N_text, StrClass, FALSE),
                  Param(N_min_section_length, IntClass, FALSE)>>),
       Function(N_summarize_text,
                "Summarize text content to a specified length.",
                <<Param(N_text, StrClass, FALSE),
                  Param(N_max_length, IntClass, FALSE)>>) >>

\* predicate=inspect.isfunction: static methods are functions, bound class
\* methods, slot wrappers and data attributes are not
IsFunction(m) == m.kind = "function"

\* inspect.getmembers(cls, predicate=inspect.isfunction)
FunctionMembers == SelectSeq(Members, IsFunction)

\* get_type_hints(method)[param_name]
TypeHint(p, rt) ==
    IF ~p.none_default \/ rt = "plain" THEN p.declared
    ELSE IF rt = "optional_named" THEN OptionalStrNamed
    ELSE OptionalStrUnnamed

-----------------------------------------------------------------------------
(* get_all_kernel_functions *)

\* line 215
ListSkips(n) == StartsWith(n, <<"_">>) \/ n = N_get_all_kernel_functions

\* only the annotations are searched for the marker
ListAcceptsAnnotationsOnly(m) == m.annotations_mention

\* lines 219-221
ListAccepts(m) == m.marker \/ m.annotations_mention

ListCall ==
    /\ pc_list = "call"
    /\ kernel_functions' = {}
    /\ list_pos' = 0
    /\ pc_list' = "loop"
    /\ UNCHANGED <<runtime, pc_doc, doc_pos, tools_list>>

\* lines 213-222: one iteration
ListIterate ==
    /\ pc_list = "loop"
    /\ list_pos < Len(FunctionMembers)
    /\ list_pos' = list_pos + 1
    /\ LET m == FunctionMembers[list_pos + 1]
       IN  kernel_functions' =
               IF ~ListSkips(m.name) /\ ListAccepts(m)
               THEN kernel_functions \cup {m.name}
               ELSE kernel_functions
    /\ UNCHANGED <<runtime, pc_list, pc_doc, doc_pos, tools_list>>

\* line 224
ListReturn ==
    /\ pc_list = "loop"
    /\ list_pos = Len(FunctionMembers)
    /\ pc_list' = "done"
    /\ UNCHANGED <<runtime, list_pos, kernel_functions, pc_doc, doc_pos, tools_list>>

-----------------------------------------------------------------------------
(* generate_tools_json_doc *)

\* line 239
DocSkips(n) == StartsWith(n, <<"_">>) \/ n = N_generate_tools_json_doc

\* line 243
DocAccepts(m) == m.marker

\* lines 269-285: the type of one parameter
ParamType(p, rt) ==
    LET type_obj == TypeHint(p, rt)
    IN  IF type_obj.has_name THEN Lower(type_obj.name)
        ELSE LET param_type == Lower(type_obj.repr)
             IN  IF Contains(param_type, T_int) THEN T_int
                 ELSE IF Contains(param_type, T_float) THEN T_float
                 ELSE IF Contains(param_type, T_bool) THEN T_boolean
                 ELSE T_string

\* str.capitalize() in place of str.title(): only the first letter is raised
TitleCapitalize(n) ==
    [k \in 1..Len(n) |->
        IF n[k] = "_" THEN " "
        ELSE IF k = 1 THEN UpperChar(n[k]) ELSE LowerChar(n[k])]

\* str.title() after replace("_", " "): a letter is upper-cased when it
\* follows a non-letter, lower-cased otherwise
Title(n) ==
    LET spaced == [k \in 1..Len(n) |-> IF n[k] = "_" THEN " " ELSE n[k]]
        letter(c) == c \in UpperChars \cup LowerChars
    IN  [k \in 1..Len(spaced) |->
            IF k = 1 \/ ~letter(spaced[k - 1])
            THEN UpperChar(spaced[k]) ELSE LowerChar(spaced[k])]

\* lines 263-292: args_dict, in parameter order
ArgsDict(m, rt) ==
    LET ps == SelectSeq(m.params, LAMBDA p : p.name \notin {N_cls, N_self})
    IN  [k \in 1..Len(ps) |->
            [name |-> ps[k].name,
             description |-> ps[k].name,
             title |-> Title(ps[k].name),
             type |-> ParamType(ps[k], rt)]]

\* lines 295-300; "arguments" is the JSON text of args_dict with ' for ",
\* kept as its structure
ToolEntry(m, rt) ==
    [agent |-> "Content_Processing_Agent",
     function |-> m.name,
     description |-> m.description,
     arguments |-> ArgsDict(m, rt)]

DocCall ==
    /\ pc_doc = "call"
    /\ tools_list' = <<>>
    /\ doc_pos' = 0
    /\ pc_doc' = "loop"
    /\ UNCHANGED <<runtime, pc_list, list_pos, kernel_functions>>

\* lines 237-302: one iteration
DocIterate ==
    /\ pc_doc = "loop"
    /\ doc_pos < Len(FunctionMembers)
    /\ doc_pos' = doc_pos + 1
    /\ LET m == FunctionMembers[doc_pos + 1]
       IN  tools_list' =
               IF ~DocSkips(m.name) /\ DocAccepts(m)
               THEN Append(tools_list, ToolEntry(m, runtime))
               ELSE tools_list
    /\ UNCHANGED <<runtime, pc_doc, pc_list, list_pos, kernel_functions>>

\* line 305
DocReturn ==
    /\ pc_doc = "loop"
    /\ doc_pos = Len(FunctionMembers)
    /\ pc_doc' = "done"
    /\ UNCHANGED <<runtime, doc_pos, tools_list, pc_list, list_pos, kernel_functions>>

ToolsInit ==
    /\ runtime \in Runtimes
    /\ pc_list = "call"
    /\ list_pos = 0
    /\ kernel_functions = {}
    /\ pc_doc = "call"
    /\ doc_pos = 0
    /\ tools_list = <<>>

-----------------------------------------------------------------------------
(* summarize_text *)

DefaultMaxLength == 1000

PlaceholderHead ==
    <<"T", "h", "i", "s", " ", "i", "s", " ", "a", " ", "p", "l", "a", "c",
      "e", "h", "o", "l", "d", "e", "r", " ", "f", "o", "r", " ", "t", "e",
      "x", "t", " ", "s", "u", "m", "m", "a", "r", "i", "z", "a", "t", "i",
      "o", "n", ".", " ", "I", "n", " ", "a", " ", "r", "e", "a", "l", " ",
      "i", "m", "p", "l", "e", "m", "e", "n", "t", "a", "t", "i", "o", "n",
      ",", " ", "t", "h", "i", "s", " ", "w", "o", "u", "l", "d", " ", "c",
      "a", "l", "l", " ", "t", "h", "e", " ", "A", "z", "u", "r", "e", " ",
      "O", "p", "e", "n", "A", "I", " ", "s", "e", "r", "v", "i", "c", "e",
      " ", "t", "o", " ", "s", "u", "m", "m", "a", "r", "i", "z", "e", " ",
      "t", "h", "e", " ", "i", "n", "p", "u", "t", " ", "t", "e", "x", "t",
      " ", "w", "h", "i", "c", "h", " ", "i", "s", " ">>
PlaceholderMid ==
    <<" ", "c", "h", "a", "r", "a", "c", "t", "e", "r", "s", " ", "l", "o",
      "n", "g", " ", "t", "o", " ", "a", " ", "m", "a", "x", "i", "m", "u",
      "m", " ", "o", "f", " ">>
PlaceholderTail ==
    <<" ", "c", "h", "a", "r", "a", "c", "t", "e", "r", "s", ".">>

Digits == <<"0", "1", "2", "3", "4", "5", "6", "7", "8", "9">>

\* str(n) of a natural number, in decimal
RECURSIVE NatStr(_)
NatStr(n) ==
    IF n < 10 THEN <<Digits[n + 1]>>
    ELSE NatStr(n \div 10) \o <<Digits[(n % 10) + 1]>>

\* f"{n}" of an int
IntStr(n) == IF n < 0 THEN <<"-">> \o NatStr(0 - n) ELSE NatStr(n)

\* lines 129-131
Placeholder(t, m) ==
    PlaceholderHead \o IntStr(Len(t)) \o PlaceholderMid \o IntStr(m) \o PlaceholderTail

\* the text is returned only when it is shorter than the limit
FitsLimitStrict(t, m) == Len(t) < m

\* line 126: len(text) <= max_length
FitsLimit(t, m) == Len(t) <= m

MaxSumLen == 12

\* a text that reads as the placeholder written for its own length
SelfDescribing(m) ==
    LET n == CHOOSE n \in 150..400 :
                 Len(PlaceholderHead \o IntStr(n) \o PlaceholderMid \o IntStr(m)
                     \o PlaceholderTail) = n
    IN  PlaceholderHead \o IntStr(n) \o PlaceholderMid \o IntStr(m) \o PlaceholderTail

SumMaxLengths == {-1, 0, 5, 10, DefaultMaxLength}

SumTexts ==
    {Rep("x", n) : n \in 0..MaxSumLen}
    \cup {Rep("x", 500), Rep("x", DefaultMaxLength), Rep("x", DefaultMaxLength + 1)}
    \cup {SelfDescribing(m) : m \in SumMaxLengths}

SumInit ==
    /\ pc_sum = "call"
    /\ sum_text \in SumTexts
    /\ max_length \in SumMaxLengths
    /\ sum_result = NoResult

\* lines 126-127
SumReturnText ==
    /\ pc_sum = "call"
    /\ FitsLimit(sum_text, max_length)
    /\ sum_result' = sum_text
    /\ pc_sum' = "done"
    /\ UNCHANGED <<sum_text, max_length>>

\* lines 129-131
SumReturnPlaceholder ==
    /\ pc_sum = "call"
    /\ ~FitsLimit(sum_text, max_length)
    /\ sum_result' = Placeholder(sum_text, max_length)
    /\ pc_sum' = "done"
    /\ UNCHANGED <<sum_text, max_length>>

-----------------------------------------------------------------------------
(* Properties of parse_sections *)

Returned == pc_parse = "done"

EnoughContent(secs) ==
    \A k \in 1..Len(secs) : Len(secs[k].content) >= min_section_length

\* C1: every section of the output list, after each processed line and in the
\* returned value, has content of at least min_section_length characters.
C1_MinContent ==
    /\ EnoughContent(sections)
    /\ Returned => EnoughContent(parse_result.json)

\* a call returned at least one section and dropped its last, too short, one
C1_Witness ==
    /\ Returned
    /\ Len(parse_result.json) >= 1
    /\ min_section_length > 0
    /\ current_section.content # <<>>
    /\ Len(current_section.content) < min_section_length

\* the body lines held by a content string: each is followed by one newline
ContentLines(c) == IF c = <<>> THEN <<>> ELSE Split(SubSeq(c, 1, Len(c) - 1))

\* the non-empty trimmed lines of the input, in order, each with its class
RECURSIVE InputItems(_)
InputItems(ls) ==
    IF ls = <<>> THEN <<>>
    ELSE LET l == Strip(Head(ls))
         IN  (IF l = <<>> THEN <<>>
              ELSE <<[heading |-> IsHeading(l), text |-> l]>>)
             \o InputItems(Tail(ls))

\* the heading and the body lines of every section, in output order
RECURSIVE OutputItems(_)
OutputItems(secs) ==
    IF secs = <<>> THEN <<>>
    ELSE LET body == ContentLines(Head(secs).content)
         IN  <<[heading |-> TRUE, text |-> Head(secs).title]>>
             \o [k \in 1..Len(body) |-> [heading |-> FALSE, text |-> body[k]]]
             \o OutputItems(Tail(secs))

\* a occurs in b as a subsequence: an order-preserving, one-to-one placement
RECURSIVE IsSubseq(_, _)
IsSubseq(a, b) ==
    IF a = <<>> THEN TRUE
    ELSE IF b = <<>> THEN FALSE
    ELSE IF Head(a) = Head(b) THEN IsSubseq(Tail(a), Tail(b))
    ELSE IsSubseq(a, Tail(b))

\* only the title of the first section may be the "Introduction" default
\* instead of a line of the input
InDocumentOrder(secs, txt) ==
    LET out == OutputItems(secs)
        inp == InputItems(Split(txt))
    IN  \/ IsSubseq(out, inp)
        \/ /\ secs # <<>>
           /\ secs[1].title = Introduction
           /\ IsSubseq(Tail(out), inp)

\* C2: the sections are non-overlapping and in document order: their heading
\* and body lines, read in output order, are distinct lines of the input in
\* input order (titles may repeat).
C2_DocumentOrder ==
    /\ pc_parse \in {"loop", "done"} => InDocumentOrder(sections, text)
    /\ Returned => InDocumentOrder(parse_result.json, text)

\* two sections with the same title and different places in the input
C2_Witness ==
    /\ Returned
    /\ Len(parse_result.json) >= 2
    /\ parse_result.json[1].title = parse_result.json[2].title
    /\ parse_result.json[1].content # <<>>
    /\ parse_result.json[2].content # <<>>

\* C3 as claimed: a text shorter than min_section_length gives no section.
C3_ShortTextEmpty_Claimed ==
    (Returned /\ Len(text) < min_section_length) => parse_result.json = <<>>

\* C3 as amended: a text with len(text) + 1 < min_section_length gives no
\* section (each body line enters the content with a newline appended, so the
\* content may be one character longer than the text).
C3_ShortTextEmpty ==
    (Returned /\ Len(text) + 1 < min_section_length) => parse_result.json = <<>>

\* a short text with a body line, whose section was dropped
C3_Witness ==
    /\ Returned
    /\ Len(text) + 1 < min_section_length
    /\ current_section.content # <<>>
    /\ parse_result.json = <<>>

\* C8: a completed call returns what any earlier completed call on the same
\* text and minimum returned, whatever calls came in between.
C8_SameInputSameOutput ==
    (/\ Returned
     /\ memo.called
     /\ memo.text = text
     /\ memo.min_section_length = min_section_length)
        => parse_result = memo.result

\* a repeated call on the same input that returned a section
C8_Witness ==
    /\ Returned
    /\ memo.called
    /\ memo.text = text
    /\ memo.min_section_length = min_section_length
    /\ parse_result.json # <<>>

NoAlpha(l) == \A k \in 1..Len(l) : l[k] \notin (UpperChars \cup LowerChars)

LastLineNoAlpha ==
    /\ pc_parse \in {"loop", "done"}
    /\ line_no > 0
    /\ line # <<>>
    /\ Len(line) < CapsLimit
    /\ NoAlpha(line)

\* C9 as claimed: a non-empty line shorter than 100 without alphabetic
\* characters is a heading.
C9_NoAlphaIsHeading_Claimed == LastLineNoAlpha => is_heading

\* C9 as amended: for such a line the upper-case rule (a) does not hold (it
\* needs a cased character), so the line is a heading exactly when rule (b),
\* (c) or (d) holds; otherwise it is a body line.
C9_NoAlphaNotCaps ==
    LastLineNoAlpha =>
        /\ ~RuleCaps(line)
        /\ is_heading <=> (RuleColon(line) \/ RulePrefix(line) \/ RuleShort(line))

\* a line of digits, 60 or more and fewer than 100, taken as a body line
C9_Witness ==
    /\ LastLineNoAlpha
    /\ Len(line) >= ShortLimit
    /\ ~is_heading
    /\ EndsWith(current_section.content, NL)

\* the text is four non-empty lines: heading, body, heading, body, and each
\* body line with its newline reaches the minimum
TwoHeadedText ==
    /\ pc_parse \in {"loop", "done"}
    /\ Len(lines) = 4
    /\ \A k \in 1..4 : Strip(lines[k]) # <<>>
    /\ IsHeading(Strip(lines[1])) /\ ~IsHeading(Strip(lines[2]))
    /\ IsHeading(Strip(lines[3])) /\ ~IsHeading(Strip(lines[4]))
    /\ Len(Strip(lines[2])) + 1 >= min_section_length
    /\ Len(Strip(lines[4])) + 1 >= min_section_length

\* two sections, titled by the two headings, each holding its body line, and
\* none titled "Introduction"
TwoSectionsReturned ==
    /\ parse_result.json =
           << [title |-> Strip(lines[1]), content |-> Strip(lines[2]) \o <<NL>>],
              [title |-> Strip(lines[3]), content |-> Strip(lines[4]) \o <<NL>>] >>
    /\ \A k \in 1..Len(parse_result.json) : parse_result.json[k].title # Introduction

\* C11 as claimed: a text heading, body, heading, body with long enough body
\* lines gives exactly the two sections of its headings and no section titled
\* "Introduction".
C11_TwoSections_Claimed == (Returned /\ TwoHeadedText) => TwoSectionsReturned

\* C11 as amended: the same for min_section_length >= 1 and headings that are
\* not themselves the line "Introduction" (with a minimum of 0 or less the
\* empty default section is returned too).
C11_TwoSections ==
    (/\ Returned
     /\ TwoHeadedText
     /\ min_section_length >= 1
     /\ Strip(lines[1]) # Introduction
     /\ Strip(lines[3]) # Introduction) => TwoSectionsReturned

\* the worked example has returned its two sections
C11_Witness ==
    /\ Returned
    /\ TwoHeadedText
    /\ text = ScenarioText
    /\ min_section_length \in ScenarioMinPool
    /\ parse_result.json =
           << [title |-> ScenarioH1, content |-> ScenarioB1 \o <<NL>>],
              [title |-> ScenarioH2, content |-> ScenarioB2 \o <<NL>>] >>

-----------------------------------------------------------------------------
(* Properties of extract_text_from_pdf *)

PdfReturned == pc_pdf = "done"

\* C4: whenever the document handle was opened, it is closed when the call
\* returns, on the normal path and on the path through the exception handler.
C4_HandleClosedOnReturn == PdfReturned => doc # "open"

MissingPath == file_path.is_path /\ ~fs_entry.exists

\* C5: no exception leaves the call, whatever the argument; and for a path
\* that names no file the handle is never opened and the call returns the
\* not-found message naming the path.
C5_NotFoundNeverRaises ==
    /\ pc_pdf # "raised"
    /\ MissingPath => doc = "none"
    /\ (PdfReturned /\ MissingPath) =>
           /\ pdf_outcome = "not_found"
           /\ pdf_result = NotFoundMessage \o file_path.chars
           /\ exc = NoExc

\* a call on a missing path has returned
C5_Witness ==
    /\ PdfReturned
    /\ MissingPath
    /\ pdf_result = NotFoundMessage \o file_path.chars

\* C10: a failure result begins with the error prefix, and the text of a
\* successful extraction does not.
C10_PrefixTellsFailure ==
    PdfReturned =>
        /\ pdf_outcome \in {"not_found", "error"} => StartsWith(pdf_result, ErrorPrefix)
        /\ pdf_outcome = "text" => ~StartsWith(pdf_result, ErrorPrefix)

-----------------------------------------------------------------------------
(* Properties of the registry *)

SchemaTypes == {T_string, T_int, T_float, T_boolean}

\* C6: every argument of every descriptor has one of the types string, int,
\* float, boolean (so a parameter declared str has type string, not str).
C6_SchemaTypes ==
    \A k \in 1..Len(tools_list) :
        \A a \in 1..Len(tools_list[k].arguments) :
            tools_list[k].arguments[a].type \in SchemaTypes

IsCallable(m) == m.kind \in {"function", "method", "slot"}

IsTool(m) == IsCallable(m) /\ ~StartsWith(m.name, <<"_">>) /\ m.marker

MemberSet == {Members[k] : k \in 1..Len(Members)}

Described == {tools_list[k].function : k \in 1..Len(tools_list)}

SelfNames == {N_get_all_kernel_functions, N_generate_tools_json_doc}

\* C7: the listing holds exactly the members that are public callables with
\* the tool marker; the two self-describing operations are in neither output;
\* the listing and the descriptors name the same functions.
C7_Discovery ==
    /\ kernel_functions \cap SelfNames = {}
    /\ Described \cap SelfNames = {}
    /\ pc_list = "done" =>
           \A m \in MemberSet : (m.name \in kernel_functions) <=> IsTool(m)
    /\ (pc_list = "done" /\ pc_doc = "done") => kernel_functions = Described

\* both calls have returned, and tools were found
C7_Witness ==
    /\ pc_list = "done"
    /\ pc_doc = "done"
    /\ kernel_functions # {}
    /\ \E m \in MemberSet : IsCallable(m) /\ m.name \notin kernel_functions

MinSectionLengthTitle ==
    <<"M", "i", "n", " ", "S", "e", "c", "t", "i", "o", "n", " ", "L", "e",
      "n", "g", "t", "h">>

\* t is n with every underscore turned into a space and every word begun
\* with a capital (n made of letters and underscores)
IsTitleCased(t, n) ==
    /\ Len(t) = Len(n)
    /\ \A k \in 1..Len(n) :
           IF n[k] = "_" THEN t[k] = " "
           ELSE IF k = 1 \/ n[k - 1] = "_" THEN t[k] \in UpperChars /\ LowerChar(t[k]) = LowerChar(n[k])
           ELSE t[k] \in LowerChars /\ t[k] = LowerChar(n[k])

\* C13: in every descriptor an argument's description is its name and its
\* title is the name with underscores as spaces, title-cased; the argument
\* min_section_length has type int and title "Min Section Length".
C13_ArgumentTitles ==
    \A k \in 1..Len(tools_list) :
        \A a \in 1..Len(tools_list[k].arguments) :
            LET arg == tools_list[k].arguments[a]
            IN  /\ arg.description = arg.name
                /\ IsTitleCased(arg.title, arg.name)
                /\ arg.name = N_min_section_length =>
                       /\ arg.type = T_int
                       /\ arg.title = MinSectionLengthTitle

\* the descriptor of parse_sections(text, min_section_length) was generated
C13_Witness ==
    /\ pc_doc = "done"
    /\ \E k \in 1..Len(tools_list) :
           /\ tools_list[k].function = N_parse_sections
           /\ Len(tools_list[k].arguments) = 2
           /\ tools_list[k].arguments[1].name = N_text
           /\ tools_list[k].arguments[2].name = N_min_section_length
           /\ tools_list[k].arguments[2].type = T_int
           /\ tools_list[k].arguments[2].title = MinSectionLengthTitle

-----------------------------------------------------------------------------
(* Properties of summarize_text *)

SumReturned == pc_sum = "done"

\* the result is the placeholder message and names both numbers
NamesBoth ==
    /\ StartsWith(sum_result, PlaceholderHead)
    /\ Contains(sum_result,
                IntStr(Len(sum_text)) \o PlaceholderMid \o IntStr(max_length)
                    \o PlaceholderTail)

\* C12 as claimed: the text is returned unchanged when len(text) <=
\* max_length; otherwise the placeholder naming len(text) and max_length is
\* returned, and it is never the input itself.
C12_Summarize_Claimed ==
    SumReturned =>
        IF Len(sum_text) <= max_length
        THEN sum_result = sum_text
        ELSE NamesBoth /\ sum_result # sum_text

\* C12 as amended: the same without the last part; the placeholder equals
\* the input when the input is that very placeholder message.
C12_Summarize ==
    SumReturned =>
        IF Len(sum_text) <= max_length
        THEN sum_result = sum_text
        ELSE NamesBoth

\* a text exactly as long as the limit was returned unchanged
C12_Witness ==
    /\ SumReturned
    /\ Len(sum_text) = max_length
    /\ Len(sum_text) > 0
    /\ sum_result = sum_text

-----------------------------------------------------------------------------
(* Specifications *)

\* no call of parse_sections in progress
ParseIdle ==
    /\ pc_parse = "idle"
    /\ text = <<>>
    /\ min_section_length = DefaultMinSectionLength
    /\ lines = <<>>
    /\ line_no = 0
    /\ line = <<>>
    /\ is_heading = FALSE
    /\ sections = <<>>
    /\ current_section = [title |-> <<>>, content |-> <<>>]
    /\ parse_result = NoResult
    /\ memo = NoCall

\* no call of extract_text_from_pdf in progress
PdfIdle ==
    /\ pc_pdf = "idle"
    /\ file_path = PathA
    /\ fs_entry = Missing
    /\ doc = "none"
    /\ page_count = 0
    /\ page_num = 0
    /\ pdf_text = <<>>
    /\ exc = NoExc
    /\ pdf_result = NoResult
    /\ pdf_outcome = "none"

\* no call on the registry in progress
ToolsIdle ==
    /\ runtime = "plain"
    /\ pc_list = "idle"
    /\ list_pos = 0
    /\ kernel_functions = {}
    /\ pc_doc = "idle"
    /\ doc_pos = 0
    /\ tools_list = <<>>

\* no call of summarize_text in progress
SumIdle ==
    /\ pc_sum = "idle"
    /\ sum_text = <<>>
    /\ max_length = DefaultMaxLength
    /\ sum_result = NoResult

\* one call of parse_sections
Init ==
    /\ ParseInit(Texts, MinPool) \/ ParseInit({ScenarioText}, ScenarioMinPool)
    /\ PdfIdle
    /\ ToolsIdle
    /\ SumIdle

Next ==
    \/ Enter /\ UNCHANGED <<pdfVars, toolVars, sumVars>>
    \/ Iterate /\ UNCHANGED <<pdfVars, toolVars, sumVars>>
    \/ Finish /\ UNCHANGED <<pdfVars, toolVars, sumVars>>

Spec == Init /\ [][Next]_vars

\* calls of parse_sections one after another
PureInit == ParseInit(PureTexts, PureMinPool) /\ PdfIdle /\ ToolsIdle /\ SumIdle

PureNext ==
    \/ Enter /\ UNCHANGED <<pdfVars, toolVars, sumVars>>
    \/ Iterate /\ UNCHANGED <<pdfVars, toolVars, sumVars>>
    \/ Finish /\ UNCHANGED <<pdfVars, toolVars, sumVars>>
    \/ CallAgain /\ UNCHANGED <<pdfVars, toolVars, sumVars>>

SpecPure == PureInit /\ [][PureNext]_vars

\* one call of extract_text_from_pdf
InitPdf == ParseIdle /\ PdfInit /\ ToolsIdle /\ SumIdle

NextPdf ==
    \/ PdfCheckExists /\ UNCHANGED <<parseVars, toolVars, sumVars>>
    \/ PdfOpen /\ UNCHANGED <<parseVars, toolVars, sumVars>>
    \/ PdfOpenRaises /\ UNCHANGED <<parseVars, toolVars, sumVars>>
    \/ PdfLen /\ UNCHANGED <<parseVars, toolVars, sumVars>>
    \/ PdfLenRaises /\ UNCHANGED <<parseVars, toolVars, sumVars>>
    \/ PdfPage /\ UNCHANGED <<parseVars, toolVars, sumVars>>
    \/ PdfPageRaises /\ UNCHANGED <<parseVars, toolVars, sumVars>>
    \/ PdfClose /\ UNCHANGED <<parseVars, toolVars, sumVars>>
    \/ PdfExcept /\ UNCHANGED <<parseVars, toolVars, sumVars>>

SpecPdf == InitPdf /\ [][NextPdf]_vars

\* one call of get_all_kernel_functions and one of generate_tools_json_doc
InitTools == ParseIdle /\ PdfIdle /\ ToolsInit /\ SumIdle

NextTools ==
    \/ ListCall /\ UNCHANGED <<parseVars, pdfVars, sumVars>>
    \/ ListIterate /\ UNCHANGED <<parseVars, pdfVars, sumVars>>
    \/ ListReturn /\ UNCHANGED <<parseVars, pdfVars, sumVars>>
    \/ DocCall /\ UNCHANGED <<parseVars, pdfVars, sumVars>>
    \/ DocIterate /\ UNCHANGED <<parseVars, pdfVars, sumVars>>
    \/ DocReturn /\ UNCHANGED <<parseVars, pdfVars, sumVars>>

SpecTools == InitTools /\ [][NextTools]_vars

\* one call of summarize_text
InitSum == ParseIdle /\ PdfIdle /\ ToolsIdle /\ SumInit

NextSum ==
    \/ SumReturnText /\ UNCHANGED <<parseVars, pdfVars, toolVars>>
    \/ SumReturnPlaceholder /\ UNCHANGED <<parseVars, pdfVars, toolVars>>

SpecSum == InitSum /\ [][NextSum]_vars

====
